---- MODULE Spec2Model ----
(***************************************************************************)
(* audio2text: the capture engine (src/audio/mod.rs), the streaming        *)
(* recognition session (src/websocket/mod.rs) and the application glue     *)
(* that wires them with two bounded queues (src/main.rs).                  *)
(*                                                                         *)
(* Execution contexts, each with its own position variable:                *)
(*   cb       the audio provider's callback thread                         *)
(*   pc       the task running AsrClient::start_recognition                *)
(*   rd       the read task that start_recognition spawns                  *)
(*   consumer the task draining the domain-event queue                     *)
(* Chunks are identified by the order in which the callback cuts them;     *)
(* the bytes of a chunk play no part in the session protocol.              *)
(***************************************************************************)
EXTENDS Integers, Sequences, FiniteSets, TLC

\* ---------------------------------------------------------------- bounds
MaxFrames == 3          \* inbound frames of one run, any traffic
MaxTranscript == 4      \* inbound frames of one run, well-formed traffic
MaxChunks == 4          \* chunks the callback cuts in one run, capture in focus
SessionChunks == 1      \* chunks the callback cuts in one run, session in focus
AudioQueueCap == 2      \* capacity of the audio-chunk queue (100 in main.rs)
EventQueueCap == 1      \* capacity of the domain-event queue (100 in main.rs)
SamplesPerChunk == 2    \* samples_per_chunk (sample_rate * 100 / 1000)
MaxCallback == 3        \* largest number of samples one callback delivers
MaxInput == 11          \* longest input of resample besides a tenth of a chunk, functions in focus
MaxSeq == 3             \* longest sequence whose samples or formats are chosen one by one
MaxCalls == 4           \* calls of AudioCapture::start and stop in one run, calls in focus
MaxHeard == 10000       \* samples a device delivers in one run, formats in focus
MaxOffset == 2          \* raw samples this close to the ends and the middle of a type
MaxDelivered == 48000   \* samples a device delivers in one run, samples in focus
CallbackSizes == {1000, 48000}   \* samples one callback delivers, samples in focus

\* ------------------------------------------------------------ vocabulary
TaskIds == {1, 2}       \* task ids the service may put in a header
NewIds == {1}           \* what Uuid::new_v4 returns in this run
NoTid == 0              \* AsrClient.task_id = None; a header without task_id
NoMsg == "none"         \* Header.error_message = None
Messages == {"quota"}   \* error messages the service may carry
Sentences == {0, 1}     \* Transcription.sentence_id values

\* An inbound transport item: a text frame carrying (or failing to carry) a
\* JSON Event, a Close frame, another frame kind (binary, ping, pong), or a
\* transport error.
Frame(k, e, t, m, s, f, x) ==
    [k |-> k, event |-> e, tid |-> t, msg |-> m, sid |-> s,
     sentence_end |-> f, text |-> x]

TextFrame(e, t) == Frame("text", e, t, NoMsg, -1, FALSE, "")
FailedFrame(t, m) == Frame("text", "task-failed", t, m, -1, FALSE, "")
ResultFrame(t, s, f) ==
    Frame("text", "result-generated", t, NoMsg, s, f, IF f THEN "b" ELSE "a")
GarbageFrame == Frame("garbage", "none", NoTid, NoMsg, -1, FALSE, "")
CloseFrame == Frame("close", "none", NoTid, NoMsg, -1, FALSE, "")
OtherFrame == Frame("other", "none", NoTid, NoMsg, -1, FALSE, "")
ErrItem == Frame("err", "none", NoTid, NoMsg, -1, FALSE, "")

\* What the service and the transport may deliver: any traffic.
InFrames ==
    {TextFrame("task-started", t) : t \in TaskIds}
    \cup {TextFrame("task-finished", t) : t \in TaskIds}
    \cup {FailedFrame(1, m) : m \in Messages}
    \cup {FailedFrame(2, NoMsg)}
    \cup {ResultFrame(t, 0, FALSE) : t \in TaskIds}
    \cup {TextFrame("bogus", 1)}
    \cup {GarbageFrame, CloseFrame, OtherFrame, ErrItem}

\* Well-formed traffic of one task: the confirmation, results, the end.
TranscriptFrames ==
    {TextFrame("task-started", 1), TextFrame("task-finished", 1)}
    \cup {ResultFrame(1, 0, f) : f \in BOOLEAN}
    \cup {ResultFrame(1, 1, FALSE)}

\* The least traffic that drives a session through its phases.
CaptureFrames ==
    {TextFrame("task-started", 1), TextFrame("task-finished", 1), ErrItem}

\* Domain events (AsrEvent).  sid is not a field of AsrEvent: it records the
\* sentence_id of the transcription the event was built from.
AsrEvent(ty, x, f, e, s) ==
    [type |-> ty, text |-> x, is_final |-> f, error |-> e, sid |-> s]
TaskStarted == AsrEvent("TaskStarted", "", FALSE, "", -1)
TaskFinished == AsrEvent("TaskFinished", "", FALSE, "", -1)
TaskFailed(e) == AsrEvent("TaskFailed", "", FALSE, e, -1)
ResultGenerated(x, f, s) == AsrEvent("ResultGenerated", x, f, "", s)
NoEvent == AsrEvent("none", "", FALSE, "", -1)

IsTerminal(ev) == ev.type \in {"TaskFinished", "TaskFailed"}

\* Frames written to the transport.
RunTask(t) == [k |-> "run-task", tid |-> t, chunk |-> 0]
FinishTask(t) == [k |-> "finish-task", tid |-> t, chunk |-> 0]
Binary(c) == [k |-> "binary", tid |-> NoTid, chunk |-> c]

\* ------------------------------------------------- arithmetic of f64 and f32
\* Rust's f64 and f32 are IEEE 754 binary64 and binary32: every operation
\* returns the exact result rounded to 53 or 24 significant bits, ties to
\* even.  A finite value is sign * m * 2^e with m a natural number held as a
\* sequence of 15-bit limbs, least significant first, without a leading zero
\* limb.  Infinities, NaN and the sign of zero are not represented.
Base == 2 ^ 15

Max(a, b) == IF a >= b THEN a ELSE b
Min(a, b) == IF a <= b THEN a ELSE b

RECURSIVE Zeros(_)
Zeros(n) == IF n <= 0 THEN <<>> ELSE <<0>> \o Zeros(n - 1)

RECURSIVE BigNorm(_)
BigNorm(a) ==
    IF a # <<>> /\ a[Len(a)] = 0 THEN BigNorm(SubSeq(a, 1, Len(a) - 1)) ELSE a

RECURSIVE BigOfInt(_)
BigOfInt(n) == IF n = 0 THEN <<>> ELSE <<n % Base>> \o BigOfInt(n \div Base)

RECURSIVE BigToInt(_)
BigToInt(a) == IF a = <<>> THEN 0 ELSE a[1] + Base * BigToInt(Tail(a))

Limb(a, i) == IF i <= Len(a) THEN a[i] ELSE 0

RECURSIVE BigCmpFrom(_, _, _)
BigCmpFrom(a, b, i) ==
    IF i = 0 THEN 0
    ELSE IF Limb(a, i) > Limb(b, i) THEN 1
    ELSE IF Limb(a, i) < Limb(b, i) THEN -1
    ELSE BigCmpFrom(a, b, i - 1)

\* -1, 0 or 1 as a < b, a = b or a > b
BigCmp(a, b) == BigCmpFrom(a, b, Max(Len(a), Len(b)))

RECURSIVE BigAddFrom(_, _, _, _)
BigAddFrom(a, b, i, c) ==
    IF i > Len(a) /\ i > Len(b) THEN (IF c = 0 THEN <<>> ELSE <<c>>)
    ELSE LET s == Limb(a, i) + Limb(b, i) + c
         IN  <<s % Base>> \o BigAddFrom(a, b, i + 1, s \div Base)

BigAdd(a, b) == BigNorm(BigAddFrom(a, b, 1, 0))

RECURSIVE BigSubFrom(_, _, _, _)
BigSubFrom(a, b, i, c) ==
    IF i > Len(a) THEN <<>>
    ELSE LET s == a[i] - Limb(b, i) - c
         IN  <<(s + Base) % Base>> \o BigSubFrom(a, b, i + 1, IF s < 0 THEN 1 ELSE 0)

\* a - b for a >= b
BigSub(a, b) == BigNorm(BigSubFrom(a, b, 1, 0))

RECURSIVE BigMulLimbFrom(_, _, _, _)
BigMulLimbFrom(a, m, i, c) ==
    IF i > Len(a) THEN BigOfInt(c)
    ELSE LET p == a[i] * m + c
         IN  <<p % Base>> \o BigMulLimbFrom(a, m, i + 1, p \div Base)

\* a * m for 0 <= m < Base
BigMulLimb(a, m) == IF m = 0 THEN <<>> ELSE BigMulLimbFrom(a, m, 1, 0)

RECURSIVE BigMulFrom(_, _, _)
BigMulFrom(a, b, i) ==
    IF i > Len(a) THEN <<>>
    ELSE BigAddFrom(BigMulLimb(b, a[i]), <<0>> \o BigMulFrom(a, b, i + 1), 1, 0)

BigMul(a, b) == BigNorm(BigMulFrom(a, b, 1))

\* a * 2^k
BigShl(a, k) ==
    IF a = <<>> THEN <<>>
    ELSE Zeros(k \div 15) \o BigMulLimb(a, 2 ^ (k % 15))

RECURSIVE BigShrFrom(_, _, _)
BigShrFrom(t, r, i) ==
    IF i > Len(t) THEN <<>>
    ELSE <<(t[i] \div (2 ^ r)) + (Limb(t, i + 1) % (2 ^ r)) * (2 ^ (15 - r))>>
         \o BigShrFrom(t, r, i + 1)

\* floor(a / 2^k)
BigShr(a, k) ==
    IF k \div 15 >= Len(a) THEN <<>>
    ELSE BigNorm(BigShrFrom(SubSeq(a, (k \div 15) + 1, Len(a)), k % 15, 1))

RECURSIVE IntBits(_)
IntBits(n) == IF n = 0 THEN 0 ELSE 1 + IntBits(n \div 2)

\* the number of significant bits of a
BigBits(a) == IF a = <<>> THEN 0 ELSE 15 * (Len(a) - 1) + IntBits(a[Len(a)])

BigOdd(a) == a # <<>> /\ a[1] % 2 = 1

\* The quotient digit of r by d, found from a guess that is not too small.
RECURSIVE BigDigit(_, _, _)
BigDigit(g, r, d) ==
    IF BigCmp(BigMulLimb(d, g), r) > 0 THEN BigDigit(g - 1, r, d) ELSE g

\* One step of the long division by d, whose top limb is at least Base / 2:
\* the limb l of the dividend is brought down and the next quotient digit
\* found, guessed from the top limbs as in Knuth's algorithm D.
BigDivStep(st, d, l) ==
    LET n == Len(d)
        r == <<l>> \o st.r
        guess == Min(Base - 1, (Limb(r, n + 1) * Base + Limb(r, n)) \div d[n])
        g == BigDigit(guess, r, d)
    IN  [q |-> <<g>> \o st.q, r |-> BigSub(r, BigMulLimb(d, g))]

\* The long division of a * Base^k by d, one quotient digit for each limb
\* brought down: the limbs of a from the top, then k zero limbs.
RECURSIVE BigDivLimbs(_, _, _, _)
BigDivLimbs(st, d, a, k) ==
    LET done == Len(st.q) IN
    IF done = Len(a) + k THEN st
    ELSE BigDivLimbs(BigDivStep(st, d, IF done < Len(a) THEN a[Len(a) - done] ELSE 0),
                     d, a, k)

\* A finite value: neg, magnitude m * 2^e.
Val(neg, m, e) == [neg |-> neg /\ m # <<>>, m |-> m, e |-> e]
Zero == Val(FALSE, <<>>, 0)
OfInt(n) == Val(n < 0, BigOfInt(IF n < 0 THEN -n ELSE n), 0)
\* n / 2^k
Dyadic(n, k) == Val(n < 0, BigOfInt(IF n < 0 THEN -n ELSE n), -k)

\* x rounded to p significant bits, ties to even
Round(x, p) ==
    LET k == BigBits(x.m) - p IN
    IF k <= 0 THEN x
    ELSE LET q == BigShr(x.m, k)
             rem == BigSub(x.m, BigShl(q, k))
             c == BigCmp(rem, BigShl(<<1>>, k - 1))
             up == c > 0 \/ (c = 0 /\ BigOdd(q))
         IN  Val(x.neg, IF up THEN BigAdd(q, <<1>>) ELSE q, x.e + k)

\* The same value with exponent e, for e <= x.e.
AtExp(x, e) == BigShl(x.m, x.e - e)

\* the exact sum
Sum(x, y) ==
    LET e == Min(x.e, y.e)
        a == AtExp(x, e)
        b == AtExp(y, e)
    IN  IF x.neg = y.neg THEN Val(x.neg, BigAdd(a, b), e)
        ELSE IF BigCmp(a, b) >= 0 THEN Val(x.neg, BigSub(a, b), e)
        ELSE Val(y.neg, BigSub(b, a), e)

Neg(x) == Val(~x.neg, x.m, x.e)

\* the exact product
Prod(x, y) == Val(x.neg # y.neg, BigMul(x.m, y.m), x.e + y.e)

\* -1, 0 or 1 as x < y, x = y or x > y
Cmp(x, y) ==
    LET d == Sum(x, Neg(y)) IN
    IF d.m = <<>> THEN 0 ELSE IF d.neg THEN -1 ELSE 1

\* x / y for y # 0, rounded to p significant bits: a quotient of at least
\* p + 2 bits, with one more bit set when the division leaves a remainder.
Quot(x, y, p) ==
    IF x.m = <<>> \/ y.m = <<>> THEN Zero
    ELSE LET z == (15 - (BigBits(y.m) % 15)) % 15
             d == BigShl(y.m, z)
             a == BigShl(x.m, z)
             k == Max(0, (p + 2 + BigBits(d) - BigBits(a) + 14) \div 15)
             r == BigDivLimbs([q |-> <<>>, r |-> <<>>], d, a, k)
             sticky == IF r.r = <<>> THEN 0 ELSE 1
         IN  Round(Val(x.neg # y.neg,
                       BigAdd(BigMulLimb(BigNorm(r.q), 2), <<sticky>>),
                       x.e - y.e - 15 * k - 1), p)

\* the integer part of the magnitude of x
Trunc(x) ==
    IF x.e >= 0 THEN BigToInt(BigShl(x.m, x.e)) ELSE BigToInt(BigShr(x.m, -x.e))

RECURSIVE LowZeros(_)
LowZeros(n) == IF n % 2 = 1 THEN 0 ELSE 1 + LowZeros(n \div 2)

RECURSIVE ZeroLimbs(_, _)
ZeroLimbs(a, i) == IF a[i] # 0 THEN 0 ELSE 1 + ZeroLimbs(a, i + 1)

\* x with an odd m: equal values are then equal records.
Canon(x) ==
    IF x.m = <<>> THEN Zero
    ELSE LET l == ZeroLimbs(x.m, 1)
             z == 15 * l + LowZeros(x.m[l + 1])
         IN  Val(x.neg, BigShr(x.m, z), x.e + z)

F64(x) == Round(x, 53)
F32(x) == Round(x, 24)


\* ------------------------------------------------ resampler (audio/mod.rs)
TARGET_SAMPLE_RATE == 16000
TARGET_CHANNELS == 1
CHUNK_DURATION_MS == 100

\* A slip: nothing is copied.
to_vec_empty(input) == <<>>

\* input.to_vec()
to_vec(input) == input

\* target_rate as f64 / source_rate as f64
ratio_of(source_rate, target_rate) ==
    Quot(OfInt(target_rate), OfInt(source_rate), 53)

\* (input.len() as f64 * ratio) as usize
output_len_of(n, ratio) == Trunc(F64(Prod(OfInt(n), ratio)))

\* For output sample i: src_idx and `frac as f32`.
position(i, ratio) ==
    LET src_pos == Quot(OfInt(i), ratio, 53)
        src_idx == Trunc(src_pos)
        frac == F64(Sum(src_pos, Neg(OfInt(src_idx))))
    IN  [src_idx |-> src_idx, frac |-> F32(frac)]

\* The positions of all output samples for an input of n samples.
positions_of(n, source_rate, target_rate) ==
    LET ratio == ratio_of(source_rate, target_rate)
        output_len == output_len_of(n, ratio)
    IN  [j \in 1..output_len |-> position(j - 1, ratio)]

\* A slip: the branch for the last sample of the input is missing.
sample_at_no_last(input, p) ==
    IF p.src_idx + 1 < Len(input)
      THEN Canon(F32(Sum(
               F32(Prod(input[p.src_idx + 1], F32(Sum(OfInt(1), Neg(p.frac))))),
               F32(Prod(input[p.src_idx + 2], p.frac)))))
    ELSE Zero

\* The body of the loop of resample for one output sample (input is
\* indexed from 1 here, from 0 in the code).
sample_at(input, p) ==
    IF p.src_idx + 1 < Len(input)
      THEN Canon(F32(Sum(
               F32(Prod(input[p.src_idx + 1], F32(Sum(OfInt(1), Neg(p.frac))))),
               F32(Prod(input[p.src_idx + 2], p.frac)))))
    ELSE IF p.src_idx < Len(input) THEN input[p.src_idx + 1]
    ELSE Zero

\* The output of resample for an input read at the positions ps.
resample_at(input, ps) == [j \in DOMAIN ps |-> sample_at(input, ps[j])]

\* SimpleResampler::resample
resample(input, source_rate, target_rate) ==
    IF source_rate = target_rate THEN to_vec(input)
    ELSE resample_at(input, positions_of(Len(input), source_rate, target_rate))

\* ------------------------------------- process_audio_samples (audio/mod.rs)

\* A slip: a missing second sample counts as the first one again.
second_or_first(samples_f32, k) ==
    IF 2 * k <= Len(samples_f32) THEN samples_f32[2 * k] ELSE samples_f32[2 * k - 1]

\* chunk.get(1).copied().unwrap_or(0.0) for the k-th frame of chunks(2)
second_of(samples_f32, k) ==
    IF 2 * k <= Len(samples_f32) THEN samples_f32[2 * k] ELSE Zero

\* chunk.iter().sum::<f32>() over samples_f32[from..to], acc the sum so far
RECURSIVE sum_f32(_, _, _, _)
sum_f32(samples_f32, from, to, acc) ==
    IF from > to THEN acc
    ELSE sum_f32(samples_f32, from + 1, to, F32(Sum(acc, samples_f32[from])))

\* The conversion to mono: the mean of the two samples of a frame for two
\* channels, the sum of a frame over the channel count for more, the input
\* itself for one.  chunks(n) ends with a shorter frame when the length is
\* not a multiple of n.
mono_samples(samples_f32, source_channels) ==
    LET n == Len(samples_f32)
        c == source_channels
    IN  IF c = 2
          THEN [k \in 1..((n + 1) \div 2) |->
                  Canon(Quot(F32(Sum(samples_f32[2 * k - 1], second_of(samples_f32, k))),
                             OfInt(2), 24))]
        ELSE IF c > 2
          THEN [k \in 1..((n + c - 1) \div c) |->
                  Canon(Quot(sum_f32(samples_f32, c * (k - 1) + 1, Min(c * k, n), Zero),
                             OfInt(c), 24))]
        ELSE samples_f32

\* A slip: the sample is scaled as it is.
clamp_missing(sample) == sample

\* sample.clamp(-1.0, 1.0)
clamp(sample) ==
    IF Cmp(sample, OfInt(-1)) < 0 THEN OfInt(-1)
    ELSE IF Cmp(sample, OfInt(1)) > 0 THEN OfInt(1)
    ELSE sample

\* The cast `as i16` of an f32: toward zero, saturating.
as_i16(x) ==
    LET n == IF BigBits(x.m) + x.e > 16 THEN 2 ^ 16 ELSE Trunc(x)
    IN  IF x.neg THEN Max(-32768, -n) ELSE Min(32767, n)

\* (clamped * 32767.0) as i16
i16_sample(sample) == as_i16(F32(Prod(clamp(sample), OfInt(32767))))

\* i16::to_le_bytes
to_le_bytes(v) ==
    LET u == (v + 65536) % 65536 IN <<u % 256, u \div 256>>

\* The flat_map of the encoding over the samples of a chunk.
pcm_bytes(resampled) ==
    [j \in 1..(2 * Len(resampled)) |->
        to_le_bytes(i16_sample(resampled[(j + 1) \div 2]))[2 - (j % 2)]]

VARIABLES
    state,          \* App.state
    app_audio_tx,   \* App.audio_tx is Some
    is_recording,   \* AudioCapture.is_recording
    stream,         \* AudioCapture.stream is Some (the callback and its sender live)
    stopping,       \* AudioCapture::stop has cleared the flag, not yet dropped the stream
    cb,             \* callback position: "idle" | "loop"
    buffer,         \* number of samples in the accumulation buffer
    cut,            \* chunks cut so far; the k-th chunk is chunk k
    audioq,         \* audio-chunk queue contents (chunk ids)
    accepted,       \* history: chunks try_send accepted, in order
    pc,             \* position of start_recognition
    ret,            \* result of start_recognition: "none" | "ok" | "err"
    task_id,        \* AsrClient.task_id (NoTid = None)
    hs_event,       \* event the handshake is sending to event_tx
    rd,             \* read task: "unspawned" | "reading" | "sending" | "ended"
    rd_event,       \* event the read task is sending to event_tx_clone
    arrived,        \* history: inbound items taken from the transport, in order
    decoded,        \* history: domain events built from inbound items, in order
    eof,            \* the inbound stream has ended (read.next() yields None)
    wire,           \* history: frames written to the transport, in order
    evq,            \* domain-event queue contents
    emitted,        \* history: events whose send to the event queue completed
    observed,       \* history: events the consumer received
    consumer,       \* "receiving" | "ended"
    released,       \* history: how many times a cpal::Stream was dropped
    calls,          \* history: calls of AudioCapture::start and stop, with how they ended
    config,         \* the negotiated input format: channels and sample_rate
    positions,      \* where resample reads a chunk of the negotiated format
    signal,         \* what the device hears: the sample at each position of its stream
    delivered,      \* samples the device has delivered to the callback so far
    samples,        \* contents of the accumulation buffer
    chunks,         \* history: the bytes of each chunk cut, in order
    call,           \* a function of the capture path called on its own: name and arguments
    result          \* what that call returned

capture_vars == <<state, app_audio_tx, is_recording, stream, stopping, cb,
                  buffer, cut, audioq, accepted>>
session_vars == <<pc, ret, task_id, hs_event, rd, rd_event, arrived, decoded,
                  eof, wire>>
event_vars == <<evq, emitted, observed, consumer>>
api_vars == <<released, calls>>
data_vars == <<config, positions, signal, delivered, samples, chunks>>
unit_vars == <<call, result>>
vars == <<capture_vars, session_vars, event_vars, api_vars, data_vars, unit_vars>>

\* No format negotiated; no function called on its own.
NoConfig == [channels |-> 0, sample_rate |-> 0]
NoCall == [op |-> "none"]
NoResult == <<>>

\* App::new, AudioCapture::new, AsrClient::new
Init ==
    /\ state = "Idle"
    /\ app_audio_tx = FALSE
    /\ is_recording = FALSE
    /\ stream = FALSE
    /\ stopping = FALSE
    /\ cb = "idle"
    /\ buffer = 0
    /\ cut = 0
    /\ audioq = <<>>
    /\ accepted = <<>>
    /\ pc = "unspawned"
    /\ ret = "none"
    /\ task_id = NoTid
    /\ hs_event = NoEvent
    /\ rd = "unspawned"
    /\ rd_event = NoEvent
    /\ arrived = <<>>
    /\ decoded = <<>>
    /\ eof = FALSE
    /\ wire = <<>>
    /\ evq = <<>>
    /\ emitted = <<>>
    /\ observed = <<>>
    /\ consumer = "unspawned"
    /\ released = 0
    /\ calls = <<>>
    /\ config = NoConfig
    /\ positions = <<>>
    /\ signal = "none"
    /\ delivered = 0
    /\ samples = <<>>
    /\ chunks = <<>>
    /\ call = NoCall
    /\ result = NoResult

\* ------------------------------------------------------ capture (audio/mod.rs)

\* A slip: the chunk is queued whatever the state of the queue.
try_send_unbounded(q, c, closed) == Append(q, c)

\* mpsc::Sender::try_send on the audio-chunk queue: the queue after the call.
\* A full queue or a dropped receiver rejects the chunk.
try_send_at(q, c, closed, cap) ==
    IF closed \/ Len(q) >= cap THEN q ELSE Append(q, c)
try_send(q, c, closed) == try_send_at(q, c, closed, AudioQueueCap)

\* audio_rx is owned by start_recognition and dropped when it returns.
AudioRxClosed == pc = "done"

\* Every Sender of the audio-chunk queue is gone: App.audio_tx and the copy
\* moved into the stream callback.
AudioSendersGone == ~app_audio_tx /\ ~stream

\* A slip: every stop counts as the release of a stream.
dropped_always(held) == 1

\* What assigning to AudioCapture.stream drops: the stream it held, if any.
dropped(held) == IF held THEN 1 ELSE 0

\* One more entry of the history of calls of AudioCapture.
Called(op, end) == Append(calls, [op |-> op, end |-> end])

\* App::start_recording.  o is how AudioCapture::start ends: "nodevice" fails
\* before the recording flag is set, "buildfail" after it, "ok" plays the stream.
StartRecording ==
    /\ state = "Idle" /\ pc = "unspawned" /\ ~app_audio_tx
    /\ \E o \in {"ok", "nodevice", "buildfail"} :
        /\ app_audio_tx' = TRUE
        /\ is_recording' = (o # "nodevice")
        /\ stream' = (o = "ok")
        /\ state' = IF o = "ok" THEN "Recording" ELSE "Idle"
        /\ pc' = IF o = "ok" THEN "connecting" ELSE "unspawned"
        /\ consumer' = IF o = "ok" THEN "receiving" ELSE "unspawned"
        /\ released' = released + (IF o = "ok" THEN dropped(stream) ELSE 0)
        /\ calls' = Called("start", o)
    /\ UNCHANGED <<data_vars, unit_vars>>
    /\ UNCHANGED <<stopping, cb, buffer, cut, audioq, accepted, ret, task_id,
                   hs_event, rd, rd_event, arrived, decoded, eof, wire, evq, emitted,
                   observed>>

\* App::stop_recording, first half: AudioCapture::stop clears the flag.
StopFlag ==
    /\ state = "Recording" /\ ~stopping
    /\ is_recording' = FALSE
    /\ stopping' = TRUE
    /\ UNCHANGED <<api_vars, data_vars, unit_vars>>
    /\ UNCHANGED <<state, app_audio_tx, stream, cb, buffer, cut, audioq,
                   accepted, session_vars, event_vars>>

\* App::stop_recording, second half: the stream is dropped (which waits for a
\* running callback), then App.audio_tx and App.state are reset.
StopDrop ==
    /\ stopping /\ cb = "idle"
    /\ stream' = FALSE
    /\ stopping' = FALSE
    /\ app_audio_tx' = FALSE
    /\ state' = "Idle"
    /\ released' = released + dropped(stream)
    /\ calls' = Called("stop", "ok")
    /\ UNCHANGED <<data_vars, unit_vars>>
    /\ UNCHANGED <<is_recording, cb, buffer, cut, audioq, accepted,
                   session_vars, event_vars>>

\* A slip: the callback does not look at the recording flag.
Callback_unguarded(N, maxc) ==
    /\ stream /\ cb = "idle"
    /\ \E n \in N :
        /\ cut + ((buffer + n) \div SamplesPerChunk) <= maxc
        /\ buffer' = buffer + n /\ cb' = "loop"
        /\ delivered' = delivered + n
    /\ UNCHANGED <<api_vars, unit_vars>>
    /\ UNCHANGED <<config, positions, signal, samples, chunks>>
    /\ UNCHANGED <<state, app_audio_tx, is_recording, stream, stopping, cut,
                   audioq, accepted, session_vars, event_vars>>

\* The stream callback is entered with n (downmixed) samples, n in N: it
\* returns at once when the flag is clear, else process_audio_samples extends
\* the buffer.
Callback(N, maxc) ==
    /\ stream /\ cb = "idle"
    /\ \E n \in N :
        /\ cut + ((buffer + n) \div SamplesPerChunk) <= maxc
        /\ IF is_recording
             THEN /\ buffer' = buffer + n /\ cb' = "loop"
                  /\ delivered' = delivered + n
             ELSE UNCHANGED <<buffer, cb, delivered>>
    /\ UNCHANGED <<api_vars, unit_vars>>
    /\ UNCHANGED <<config, positions, signal, samples, chunks>>
    /\ UNCHANGED <<state, app_audio_tx, is_recording, stream, stopping, cut,
                   audioq, accepted, session_vars, event_vars>>

\* A slip: a buffer of exactly one chunk is left waiting.
has_chunk_strict(len, spc) == len > spc

\* buffer.len() >= samples_per_chunk
has_chunk(len, spc) == len >= spc

\* One turn of the `while buffer.len() >= samples_per_chunk` loop of
\* process_audio_samples: cut a chunk and try_send it, or leave the callback.
ProcessChunk ==
    /\ cb = "loop"
    /\ IF has_chunk(buffer, SamplesPerChunk)
         THEN /\ buffer' = buffer - SamplesPerChunk
              /\ cut' = cut + 1
              /\ audioq' = try_send(audioq, cut + 1, AudioRxClosed)
              /\ accepted' = IF audioq' # audioq
                               THEN Append(accepted, cut + 1) ELSE accepted
              /\ cb' = "loop"
         ELSE /\ cb' = "idle"
              /\ UNCHANGED <<buffer, cut, audioq, accepted>>
    /\ UNCHANGED <<api_vars, data_vars, unit_vars>>
    /\ UNCHANGED <<state, app_audio_tx, is_recording, stream, stopping,
                   session_vars, event_vars>>

\* ------------------------- sample formats of the callbacks (audio/mod.rs)

Pow2(k) == Val(FALSE, <<1>>, k)

\* The integer sample types: name, width and whether signed.
SampleTypes ==
    {[name |-> n, bits |-> b, signed |-> TRUE] :
        <<n, b>> \in {<<"i8", 8>>, <<"i16", 16>>, <<"i32", 32>>, <<"i64", 64>>}}
    \cup {[name |-> n, bits |-> b, signed |-> FALSE] :
        <<n, b>> \in {<<"u8", 8>>, <<"u16", 16>>, <<"u32", 32>>, <<"u64", 64>>}}

\* T::MIN, T::MAX and the value of silence
type_min(ty) == IF ty.signed THEN Neg(Pow2(ty.bits - 1)) ELSE Zero
type_max(ty) ==
    Sum(Pow2(IF ty.signed THEN ty.bits - 1 ELSE ty.bits), OfInt(-1))
type_mid(ty) == IF ty.signed THEN Zero ELSE Pow2(ty.bits - 1)

I32_MAX == type_max([name |-> "i32", bits |-> 32, signed |-> TRUE])
I64_MAX == type_max([name |-> "i64", bits |-> 64, signed |-> TRUE])
U32_MAX == type_max([name |-> "u32", bits |-> 32, signed |-> FALSE])
U64_MAX == type_max([name |-> "u64", bits |-> 64, signed |-> FALSE])

\* A slip: the divisor is i8::MAX.
normalize_i8_by_max(s) == Quot(F32(s), OfInt(127), 24)

\* s as f32 / 128.0
normalize_i8(s) == Quot(F32(s), OfInt(128), 24)

\* s as f32 / 32768.0
normalize_i16(s) == Quot(F32(s), OfInt(32768), 24)

\* s as f32 / (i32::MAX as f32)
normalize_i32(s) == Quot(F32(s), F32(I32_MAX), 24)

\* (s as f64 / i64::MAX as f64) as f32
normalize_i64(s) == F32(Quot(F64(s), F64(I64_MAX), 53))

\* (s as f32 - 128.0) / 128.0
normalize_u8(s) == Quot(F32(Sum(F32(s), OfInt(-128))), OfInt(128), 24)

\* (s as f32 - 32768.0) / 32768.0
normalize_u16(s) == Quot(F32(Sum(F32(s), OfInt(-32768))), OfInt(32768), 24)

\* ((s as f64 - (u32::MAX as f64 / 2.0)) / (u32::MAX as f64 / 2.0)) as f32
normalize_u32(s) ==
    LET half == Quot(F64(U32_MAX), OfInt(2), 53)
    IN  F32(Quot(F64(Sum(F64(s), Neg(half))), half, 53))

\* ((s as f64 - (u64::MAX as f64 / 2.0)) / (u64::MAX as f64 / 2.0)) as f32
normalize_u64(s) ==
    LET half == Quot(F64(U64_MAX), OfInt(2), 53)
    IN  F32(Quot(F64(Sum(F64(s), Neg(half))), half, 53))

\* The conversion the callback of build_stream_<name> applies to a sample.
normalize(ty, s) ==
    CASE ty.name = "i8" -> normalize_i8(s)
      [] ty.name = "i16" -> normalize_i16(s)
      [] ty.name = "i32" -> normalize_i32(s)
      [] ty.name = "i64" -> normalize_i64(s)
      [] ty.name = "u8" -> normalize_u8(s)
      [] ty.name = "u16" -> normalize_u16(s)
      [] ty.name = "u32" -> normalize_u32(s)
      [] ty.name = "u64" -> normalize_u64(s)

\* ------------------------------- functions of the capture path on their own

\* SupportedStreamConfigRange::with_sample_rate (cpal) asserts that the rate
\* lies in the range of the configuration and panics otherwise.
with_sample_rate(c, rate) ==
    IF c.min_sample_rate <= rate /\ rate <= c.max_sample_rate
      THEN [kind |-> "ok", channels |-> c.channels, sample_rate |-> rate, range |-> c]
    ELSE [kind |-> "panic"]

\* config.min_sample_rate().0 <= TARGET_SAMPLE_RATE
\*     && config.max_sample_rate().0 >= TARGET_SAMPLE_RATE
offers_target_rate(c) ==
    c.min_sample_rate <= TARGET_SAMPLE_RATE /\ c.max_sample_rate >= TARGET_SAMPLE_RATE

\* The rate of the mono and stereo fallbacks.
fallback_rate(c) ==
    IF offers_target_rate(c) THEN TARGET_SAMPLE_RATE ELSE Min(c.max_sample_rate, 48000)

\* The first configuration of the list with the given number of channels,
\* as 0 when there is none: `for config in &supported_configs`.
first_with(supported, channels, must_offer) ==
    LET S == {i \in 1..Len(supported) :
                /\ supported[i].channels = channels
                /\ must_offer => offers_target_rate(supported[i])}
    IN  IF S = {} THEN 0 ELSE CHOOSE i \in S : \A j \in S : i <= j

\* find_best_config.  default is what device.default_input_config() returns:
\* <<format>>, or <<>> for its error.
find_best_config(supported, default) ==
    LET exact == first_with(supported, TARGET_CHANNELS, TRUE)
        mono == first_with(supported, TARGET_CHANNELS, FALSE)
        stereo == first_with(supported, 2, FALSE)
    IN  IF exact # 0 THEN with_sample_rate(supported[exact], TARGET_SAMPLE_RATE)
        ELSE IF mono # 0 THEN with_sample_rate(supported[mono], fallback_rate(supported[mono]))
        ELSE IF stereo # 0
          THEN with_sample_rate(supported[stereo], fallback_rate(supported[stereo]))
        ELSE IF default = <<>> THEN [kind |-> "err"]
        ELSE [kind |-> "default", channels |-> default[1].channels,
              sample_rate |-> default[1].sample_rate]

\* The signals a run may hear, and the sample at position i of each (i >= 1):
\* nothing, a constant beyond full scale, and quarters between -1 and 1.
Signals == {"silence", "loud", "ramp"}
Heard(sig, i) ==
    IF sig = "silence" THEN Zero
    ELSE IF sig = "loud" THEN Canon(Dyadic(3, 1))
    ELSE Canon(Dyadic(((5 * i) % 9) - 4, 2))

\* Arguments of the calls: rates, lengths, samples, formats.
RatePairs == {<<48000, 16000>>, <<44100, 16000>>, <<8000, 16000>>, <<16000, 16000>>,
              <<44100, 44100>>, <<2, 1>>, <<11, 15>>}
InputLengths == (0..MaxInput) \cup {480}
Samples == {Zero, OfInt(1), OfInt(-1), Canon(Dyadic(1, 1)), Canon(Dyadic(-1, 2)),
            Canon(Dyadic(3, 1)), OfInt(-2), Canon(Dyadic(3, 20)),
            Canon(Dyadic(8388864, 38)), Canon(Dyadic(-8388864, 38))}
Frames == {Zero, OfInt(1), OfInt(-1), Canon(Dyadic(1, 1)), Canon(Dyadic(-1, 2))}
SeqsOf(S) == UNION {[1..n -> S] : n \in 0..MaxSeq}
Ranges == {<<8000, 48000>>, <<44100, 96000>>, <<8000, 11025>>, <<44100, 44100>>,
           <<88200, 96000>>}
Configs == {[channels |-> c, min_sample_rate |-> r[1], max_sample_rate |-> r[2]] :
              c \in {1, 2, 4}, r \in Ranges}
Defaults == {<<>>, <<[channels |-> 2, sample_rate |-> 44100]>>,
             <<[channels |-> 4, sample_rate |-> 96000]>>}

\* Inputs of resample: a stretch of a signal, or a few samples chosen one by one.
ResampleInputs ==
    {[i \in 1..n |-> Heard(sig, i)] : n \in InputLengths, sig \in Signals}
    \cup SeqsOf(Frames)

\* Raw samples of a type: those within MaxOffset of its minimum, of silence
\* and of its maximum, and every value of the 8-bit types.
RawValues(ty) ==
    {Sum(type_min(ty), OfInt(d)) : d \in 0..MaxOffset}
    \cup {Sum(type_max(ty), OfInt(-d)) : d \in 0..MaxOffset}
    \cup {Sum(type_mid(ty), OfInt(d)) : d \in (-MaxOffset)..MaxOffset}
    \cup (IF ty.bits = 8
            THEN {Sum(type_min(ty), OfInt(d)) : d \in 0..255} ELSE {})

\* The conversion of one sample in the callback of an integer format.
Normalize ==
    /\ call = NoCall
    /\ \E ty \in SampleTypes :
       \E s \in RawValues(ty) :
        /\ call' = [op |-> "normalize", type |-> ty.name, raw |-> s]
        /\ result' = <<Canon(normalize(ty, s))>>
    /\ UNCHANGED <<capture_vars, session_vars, event_vars, api_vars, data_vars>>

\* SimpleResampler::new(source_rate, target_rate).resample(&input)
Resample ==
    /\ call = NoCall
    /\ \E input \in ResampleInputs, r \in RatePairs :
        /\ call' = [op |-> "resample", input |-> input,
                    source_rate |-> r[1], target_rate |-> r[2]]
        /\ result' = resample(input, r[1], r[2])
    /\ UNCHANGED <<capture_vars, session_vars, event_vars, api_vars, data_vars>>

\* The PCM encoding of process_audio_samples on a chunk of its own.
Encode ==
    /\ call = NoCall
    /\ \E input \in SeqsOf(Samples) :
        /\ call' = [op |-> "encode", input |-> input]
        /\ result' = pcm_bytes(input)
    /\ UNCHANGED <<capture_vars, session_vars, event_vars, api_vars, data_vars>>

\* The conversion to mono of process_audio_samples on the data of one callback.
Downmix ==
    /\ call = NoCall
    /\ \E input \in SeqsOf(Frames), c \in {1, 2, 3} :
        /\ call' = [op |-> "downmix", input |-> input, channels |-> c]
        /\ result' = mono_samples(input, c)
    /\ UNCHANGED <<capture_vars, session_vars, event_vars, api_vars, data_vars>>

\* find_best_config on a device that lists at most two formats.
FindBestConfig ==
    /\ call = NoCall
    /\ \E supported \in UNION {[1..n -> Configs] : n \in 0..2}, default \in Defaults :
        /\ call' = [op |-> "find_best_config", supported |-> supported,
                    default |-> default]
        /\ result' = find_best_config(supported, default)
    /\ UNCHANGED <<capture_vars, session_vars, event_vars, api_vars, data_vars>>

\* ------------------------------------------- AudioCapture called on its own

\* AudioCapture::start from entry to return.  o is how it ends: "nodevice"
\* fails before the recording flag is set, "buildfail" after it and before
\* the stream is stored, "ok" stores the stream, which drops the one held.
CaptureStart ==
    /\ Len(calls) < MaxCalls
    /\ \E o \in {"ok", "nodevice", "buildfail"} :
        /\ is_recording' = (is_recording \/ o # "nodevice")
        /\ stream' = (stream \/ o = "ok")
        /\ released' = released + (IF o = "ok" THEN dropped(stream) ELSE 0)
        /\ calls' = Called("start", o)
    /\ UNCHANGED <<state, app_audio_tx, stopping, cb, buffer, cut, audioq, accepted,
                   session_vars, event_vars, data_vars, unit_vars>>

\* AudioCapture::stop from entry to return.
CaptureStop ==
    /\ Len(calls) < MaxCalls
    /\ is_recording' = FALSE
    /\ stream' = FALSE
    /\ released' = released + dropped(stream)
    /\ calls' = Called("stop", "ok")
    /\ UNCHANGED <<state, app_audio_tx, stopping, cb, buffer, cut, audioq, accepted,
                   session_vars, event_vars, data_vars, unit_vars>>

\* ------------------------------------- the capture path on the samples heard

\* tokio::sync::mpsc::channel::<Vec<u8>>(100)
audio_channel_capacity == 100

\* A slip: the chunk is measured at the rate of the service.
samples_per_chunk_at_target(sample_rate) ==
    (TARGET_SAMPLE_RATE * CHUNK_DURATION_MS) \div 1000

\* (sample_rate * CHUNK_DURATION_MS / 1000) as usize
samples_per_chunk(sample_rate) == (sample_rate * CHUNK_DURATION_MS) \div 1000

\* The resampler of a stream is Some exactly when the rate of the device is
\* not the rate of the service; it then holds both rates, and every chunk it is
\* given has samples_per_chunk samples.
chunk_positions(sample_rate) ==
    IF sample_rate = TARGET_SAMPLE_RATE THEN <<>>
    ELSE positions_of(samples_per_chunk(sample_rate), sample_rate, TARGET_SAMPLE_RATE)

\* One turn of the loop of process_audio_samples on real samples: the bytes
\* sent for the chunk drained from the buffer.
encode_chunk(chunk, sample_rate, ps) ==
    pcm_bytes(IF sample_rate = TARGET_SAMPLE_RATE THEN chunk ELSE resample_at(chunk, ps))

\* The queue after try_send of the chunks first .. first + k - 1, in order.
RECURSIVE send_chunks(_, _, _, _, _)
send_chunks(q, first, k, closed, cap) ==
    IF k = 0 THEN q
    ELSE send_chunks(try_send_at(q, first, closed, cap), first + 1, k - 1, closed, cap)

\* The stream callback with n more samples of the signal, n in N, the queue
\* holding at most cap chunks and the device delivering at most maxd samples
\* in the run: process_audio_samples from entry to return.
DeliverUpTo(N, cap, maxd) ==
    /\ stream /\ is_recording /\ cb = "idle"
    /\ \E n \in N :
        /\ delivered + n <= maxd
        /\ LET heard == [i \in 1..n |-> Heard(signal, delivered + i)]
               all == samples \o mono_samples(heard, config.channels)
               spc == samples_per_chunk(config.sample_rate)
               k == Len(all) \div spc
               q == send_chunks(audioq, cut + 1, k, AudioRxClosed, cap)
           IN  /\ delivered' = delivered + n
               /\ samples' = SubSeq(all, k * spc + 1, Len(all))
               /\ buffer' = Len(all) - k * spc
               /\ cut' = cut + k
               /\ chunks' = chunks \o
                     [j \in 1..k |->
                        encode_chunk(SubSeq(all, (j - 1) * spc + 1, j * spc),
                                     config.sample_rate, positions)]
               /\ audioq' = q
               /\ accepted' = accepted \o SubSeq(q, Len(audioq) + 1, Len(q))
    /\ UNCHANGED <<state, app_audio_tx, is_recording, stream, stopping, cb,
                   session_vars, event_vars, api_vars, config, positions, signal,
                   unit_vars>>

Deliver(N, cap) == DeliverUpTo(N, cap, MaxDelivered)

\* --------------------------------------------------- session (websocket/mod.rs)

EofItem == Frame("eof", "none", NoTid, NoMsg, -1, FALSE, "")

\* What read.next() may yield now, the traffic being frames of F, at most maxf.
Incoming(F, maxf) ==
    IF eof THEN {EofItem}
    ELSE (IF Len(arrived) < maxf THEN F ELSE {}) \cup {EofItem}

Took(f) == IF f = EofItem THEN arrived ELSE Append(arrived, f)
Built(ev) == IF ev = NoEvent THEN decoded ELSE Append(decoded, ev)

\* serde_json::from_str::<Event>: Header.task_id is a required field.
Decodes(f) == f.k = "text" /\ f.tid # NoTid

\* A slip: the carried message is not read.
error_of_lost(f) == "Unknown error"

\* header.error_message.unwrap_or_else(|| "Unknown error")
error_of(f) == IF f.msg = NoMsg THEN "Unknown error" ELSE f.msg

generate_run_task_cmd(t) == RunTask(t)

\* A slip: the command is built with the action of generate_run_task_cmd.
generate_finish_task_cmd_as_run(t) == IF t = NoTid THEN <<>> ELSE <<RunTask(t)>>

\* generate_finish_task_cmd: None when no task id is stored.
generate_finish_task_cmd(t) == IF t = NoTid THEN <<>> ELSE <<FinishTask(t)>>

\* mpsc::Sender::send on the event queue completes when there is room or the
\* receiver is gone; until then the sender is suspended.
EventRxClosed == consumer = "ended"
CanCompleteSend == EventRxClosed \/ Len(evq) < EventQueueCap

\* The body of the `while !task_started` loop for one item: what to do next.
\* own is self.task_id; the loop looks at header.event only and never reads it.
handshake_step(f, own) ==
    CASE f.k = "eof" -> [next |-> "stay", ev |-> NoEvent]
      [] f.k = "err" -> [next |-> "fail", ev |-> NoEvent]
      [] f.k = "close" -> [next |-> "fail", ev |-> NoEvent]
      [] f.k = "garbage" -> [next |-> "fail", ev |-> NoEvent]
      [] f.k = "text" ->
            IF ~Decodes(f) THEN [next |-> "fail", ev |-> NoEvent]
            ELSE IF f.event = "task-started"
                   THEN [next |-> "send", ev |-> TaskStarted]
            ELSE IF f.event = "task-failed"
                   THEN [next |-> "send", ev |-> TaskFailed(error_of(f))]
            ELSE [next |-> "stay", ev |-> NoEvent]
      [] OTHER -> [next |-> "stay", ev |-> NoEvent]

\* A slip: every result is reported as final.
result_event_all_final(f) == ResultGenerated(f.text, TRUE, f.sid)

\* The event of the "result-generated" arm: text and sentence_end of the
\* transcription.
result_event(f) == ResultGenerated(f.text, f.sentence_end, f.sid)

\* A slip: a text frame that does not decode ends the read task.
on_undecodable_fatal == [next |-> "ended", ev |-> NoEvent]

\* The read task on a text frame that does not decode (`if let Ok(event)`
\* without else): the frame is skipped.
on_undecodable == [next |-> "reading", ev |-> NoEvent]

\* A slip: an event the read task has nothing to report for ends it.
on_nothing_to_report_fatal == [next |-> "ended", ev |-> NoEvent]

\* The read task on an event without a name (`if let Some(event_type)` without
\* else), with a name it does not know (the `_` arm, which only warns) or on a
\* result without output or transcription (`if let Some` without else).
on_nothing_to_report == [next |-> "reading", ev |-> NoEvent]

\* The body of the read task's loop for one item.  own is the clone of
\* self.task_id made before the spawn (_task_id), which the task never reads.
\* A result without payload.output.transcription has sid < 0.
read_step(f, own) ==
    CASE f.k = "eof" -> [next |-> "ended", ev |-> NoEvent]
      [] f.k = "err" -> [next |-> "ended", ev |-> NoEvent]
      [] f.k = "close" -> [next |-> "ended", ev |-> NoEvent]
      [] f.k = "garbage" -> on_undecodable
      [] f.k = "text" ->
            IF ~Decodes(f) THEN on_undecodable
            ELSE IF f.event = "result-generated"
                   THEN IF f.sid >= 0
                          THEN [next |-> "sending", ev |-> result_event(f)]
                          ELSE on_nothing_to_report
            ELSE IF f.event = "task-finished"
                   THEN [next |-> "sending", ev |-> TaskFinished]
            ELSE IF f.event = "task-failed"
                   THEN [next |-> "sending", ev |-> TaskFailed(error_of(f))]
            ELSE on_nothing_to_report
      [] OTHER -> [next |-> "reading", ev |-> NoEvent]

\* A slip: the task id is generated before the connection is opened.
Connect_after_id ==
    /\ pc = "connecting"
    /\ \E ok \in BOOLEAN, t \in NewIds :
        IF ok THEN pc' = "run-task" /\ ret' = ret /\ task_id' = task_id
              ELSE pc' = "done" /\ ret' = "err" /\ task_id' = t
    /\ UNCHANGED <<api_vars, data_vars, unit_vars>>
    /\ UNCHANGED <<hs_event, rd, rd_event, arrived, decoded, eof, wire,
                   capture_vars, event_vars>>

\* connect_async
Connect ==
    /\ pc = "connecting"
    /\ \E ok \in BOOLEAN :
        IF ok THEN pc' = "run-task" /\ ret' = ret
              ELSE pc' = "done" /\ ret' = "err"
    /\ UNCHANGED <<api_vars, data_vars, unit_vars>>
    /\ UNCHANGED <<task_id, hs_event, rd, rd_event, arrived, decoded, eof, wire,
                   capture_vars, event_vars>>

\* A slip: an id the client already holds is kept.
stored_id_if_none(held, t) == IF held = NoTid THEN t ELSE held

\* self.task_id = Some(task_id.clone()): the new id replaces what was held.
stored_id(held, t) == t

\* generate_run_task_cmd and the write of the run-task frame, Uuid::new_v4
\* returning one of ids.
SendRunTaskOf(ids) ==
    /\ pc = "run-task"
    /\ \E t \in ids, ok \in BOOLEAN :
        /\ task_id' = stored_id(task_id, t)
        /\ IF ok THEN /\ wire' = Append(wire, generate_run_task_cmd(t))
                      /\ pc' = "await-start" /\ ret' = ret
                 ELSE /\ wire' = wire
                      /\ pc' = "done" /\ ret' = "err"
    /\ UNCHANGED <<api_vars, data_vars, unit_vars>>
    /\ UNCHANGED <<hs_event, rd, rd_event, arrived, decoded, eof, capture_vars, event_vars>>

SendRunTask == SendRunTaskOf(NewIds)

\* One turn of the `while !task_started` loop up to the event send.
HandshakeRecv(F, maxf) ==
    /\ pc = "await-start"
    /\ \E f \in Incoming(F, maxf) :
        LET r == handshake_step(f, task_id) IN
        /\ arrived' = Took(f)
        /\ eof' = (eof \/ f = EofItem)
        /\ hs_event' = r.ev
        /\ decoded' = Built(r.ev)
        /\ pc' = CASE r.next = "stay" -> "await-start"
                   [] r.next = "send" -> "hs-send"
                   [] OTHER -> "done"
        /\ ret' = IF r.next = "fail" THEN "err" ELSE ret
    /\ UNCHANGED <<api_vars, data_vars, unit_vars>>
    /\ UNCHANGED <<task_id, rd, rd_event, wire, capture_vars, event_vars>>

\* event_tx.send(..).await? of the handshake, then either the loop exit and
\* the spawn of the read task, or the error return.
HandshakeSend ==
    /\ pc = "hs-send"
    /\ CanCompleteSend
    /\ IF EventRxClosed
         THEN /\ pc' = "done" /\ ret' = "err"
              /\ UNCHANGED <<rd, evq, emitted>>
         ELSE /\ evq' = Append(evq, hs_event)
              /\ emitted' = Append(emitted, hs_event)
              /\ IF hs_event.type = "TaskStarted"
                   THEN pc' = "streaming" /\ rd' = "reading" /\ ret' = ret
                   ELSE pc' = "done" /\ rd' = rd /\ ret' = "err"
    /\ hs_event' = NoEvent
    /\ UNCHANGED <<api_vars, data_vars, unit_vars>>
    /\ UNCHANGED <<task_id, rd_event, arrived, decoded, eof, wire,
                   capture_vars, observed, consumer>>

\* One turn of the read task's loop up to the event send.
ReadRecv(F, maxf) ==
    /\ rd = "reading"
    /\ \E f \in Incoming(F, maxf) :
        LET r == read_step(f, task_id) IN
        /\ arrived' = Took(f)
        /\ eof' = (eof \/ f = EofItem)
        /\ rd_event' = r.ev
        /\ decoded' = Built(r.ev)
        /\ rd' = r.next
    /\ UNCHANGED <<api_vars, data_vars, unit_vars>>
    /\ UNCHANGED <<pc, ret, task_id, hs_event, wire, capture_vars, event_vars>>

\* A slip: the read task reads on after a terminal event.
after_send_no_break(ev) == "reading"

\* Where the read task goes after its send: `break` in the task-finished and
\* task-failed arms, the next turn of the loop in the result-generated arm.
after_send(ev) == IF IsTerminal(ev) THEN "ended" ELSE "reading"

\* A slip: try_send in place of send, the event is lost when the queue is full.
ReadSendLossy ==
    /\ rd = "sending"
    /\ IF EventRxClosed \/ Len(evq) >= EventQueueCap
         THEN UNCHANGED <<evq, emitted>>
         ELSE /\ evq' = Append(evq, rd_event)
              /\ emitted' = Append(emitted, rd_event)
    /\ rd' = after_send(rd_event)
    /\ rd_event' = NoEvent
    /\ UNCHANGED <<api_vars, data_vars, unit_vars>>
    /\ UNCHANGED <<pc, ret, task_id, hs_event, arrived, decoded, eof, wire,
                   capture_vars, observed, consumer>>

\* let _ = event_tx_clone.send(..).await, then `break` after a terminal event.
ReadSend ==
    /\ rd = "sending"
    /\ CanCompleteSend
    /\ IF EventRxClosed
         THEN UNCHANGED <<evq, emitted>>
         ELSE /\ evq' = Append(evq, rd_event)
              /\ emitted' = Append(emitted, rd_event)
    /\ rd' = after_send(rd_event)
    /\ rd_event' = NoEvent
    /\ UNCHANGED <<api_vars, data_vars, unit_vars>>
    /\ UNCHANGED <<pc, ret, task_id, hs_event, arrived, decoded, eof, wire,
                   capture_vars, observed, consumer>>

\* A slip: the newest item is taken first.
recv_newest(q) == [item |-> q[Len(q)], rest |-> SubSeq(q, 1, Len(q) - 1)]

\* mpsc::Receiver::recv on a queue that holds something: the oldest item and
\* what stays queued.
recv(q) == [item |-> Head(q), rest |-> Tail(q)]

\* audio_rx.recv() yields a chunk, which is written as a binary frame; a
\* failed write leaves the loop.
ForwardAudio ==
    /\ pc = "streaming"
    /\ audioq # <<>>
    /\ audioq' = recv(audioq).rest
    /\ \E ok \in BOOLEAN :
        IF ok THEN wire' = Append(wire, Binary(recv(audioq).item)) /\ pc' = pc
              ELSE wire' = wire /\ pc' = "finish"
    /\ UNCHANGED <<api_vars, data_vars, unit_vars>>
    /\ UNCHANGED <<state, app_audio_tx, is_recording, stream, stopping, cb,
                   buffer, cut, accepted, ret, task_id, hs_event, rd,
                   rd_event, arrived, decoded, eof, event_vars>>

\* audio_rx.recv() yields None: the queue is empty and every sender is gone.
AudioClosed ==
    /\ pc = "streaming"
    /\ audioq = <<>>
    /\ AudioSendersGone
    /\ pc' = "finish"
    /\ UNCHANGED <<api_vars, data_vars, unit_vars>>
    /\ UNCHANGED <<ret, task_id, hs_event, rd, rd_event, arrived, decoded, eof, wire,
                   capture_vars, event_vars>>

\* generate_finish_task_cmd and the write of the finish-task frame.
SendFinishTask ==
    /\ pc = "finish"
    /\ LET cmd == generate_finish_task_cmd(task_id) IN
       \E ok \in BOOLEAN :
        IF cmd = <<>> \/ ok
          THEN wire' = wire \o cmd /\ pc' = "join" /\ ret' = ret
          ELSE wire' = wire /\ pc' = "done" /\ ret' = "err"
    /\ UNCHANGED <<api_vars, data_vars, unit_vars>>
    /\ UNCHANGED <<task_id, hs_event, rd, rd_event, arrived, decoded, eof,
                   capture_vars, event_vars>>

\* read_handle.await, then Ok(())
Join ==
    /\ pc = "join"
    /\ rd = "ended"
    /\ pc' = "done"
    /\ ret' = "ok"
    /\ UNCHANGED <<api_vars, data_vars, unit_vars>>
    /\ UNCHANGED <<task_id, hs_event, rd, rd_event, arrived, decoded, eof, wire,
                   capture_vars, event_vars>>

\* ------------------------------------------------- event consumer (main.rs)

\* Senders of the event queue: event_tx of start_recognition and the clone
\* moved into the read task.
EventSendersGone == pc = "done" /\ rd \notin {"reading", "sending"}

\* event_rx.recv() yields an event; a terminal event leaves the loop.
ConsumerRecv ==
    /\ consumer = "receiving"
    /\ evq # <<>>
    /\ observed' = Append(observed, recv(evq).item)
    /\ evq' = recv(evq).rest
    /\ consumer' = IF IsTerminal(recv(evq).item) THEN "ended" ELSE "receiving"
    /\ UNCHANGED <<api_vars, data_vars, unit_vars>>
    /\ UNCHANGED <<emitted, capture_vars, session_vars>>

\* event_rx.recv() yields None.
ConsumerEnd ==
    /\ consumer = "receiving"
    /\ evq = <<>>
    /\ EventSendersGone
    /\ consumer' = "ended"
    /\ UNCHANGED <<api_vars, data_vars, unit_vars>>
    /\ UNCHANGED <<evq, emitted, observed, capture_vars, session_vars>>

\* The steps of the program, the traffic being at most maxf frames of F and
\* the capture cutting at most maxc chunks from callbacks of N samples.
Step(F, maxf, N, maxc) ==
    \/ StartRecording
    \/ StopFlag
    \/ StopDrop
    \/ Callback(N, maxc)
    \/ ProcessChunk
    \/ Connect
    \/ SendRunTask
    \/ HandshakeRecv(F, maxf)
    \/ HandshakeSend
    \/ ReadRecv(F, maxf)
    \/ ReadSend
    \/ ForwardAudio
    \/ AudioClosed
    \/ SendFinishTask
    \/ Join
    \/ ConsumerRecv
    \/ ConsumerEnd

\* Any traffic, little audio.
Next == Step(InFrames, MaxFrames, {SamplesPerChunk}, SessionChunks)
Spec == Init /\ [][Next]_vars

\* Well-formed traffic, little audio.
NextTranscript ==
    Step(TranscriptFrames, MaxTranscript, {SamplesPerChunk}, SessionChunks)
SpecTranscript == Init /\ [][NextTranscript]_vars

\* Events of the task of this run as the service may word them: with or
\* without a task id, an event name the client knows, and a transcription.
EventFrames ==
    {TextFrame("task-started", 1), TextFrame("task-finished", 1)}
    \cup {FailedFrame(t, m) : t \in {1, NoTid}, m \in Messages}
    \cup {ResultFrame(1, s, FALSE) : s \in {-1, 0}}
    \cup {TextFrame("bogus", 1), TextFrame("none", 1)}
NextEvents == Step(EventFrames, MaxFrames, {SamplesPerChunk}, SessionChunks)
SpecEvents == Init /\ [][NextEvents]_vars

\* Little traffic, more audio.
NextCapture == Step(CaptureFrames, MaxFrames, 1..MaxCallback, MaxChunks)
SpecCapture == Init /\ [][NextCapture]_vars

\* One call of one function of the capture path.
NextUnits == Resample \/ Encode \/ Downmix \/ FindBestConfig \/ Normalize
SpecUnits == Init /\ [][NextUnits]_vars

\* Any calls of start and stop on a new AudioCapture.
NextApi == CaptureStart \/ CaptureStop
SpecApi == Init /\ [][NextApi]_vars

\* A capture running on a device of the format c, about to hear a signal:
\* the state App::start_recording leaves when AudioCapture::start returns Ok.
InitHearing(c) ==
    /\ state = "Recording"
    /\ app_audio_tx = TRUE
    /\ is_recording = TRUE
    /\ stream = TRUE
    /\ stopping = FALSE
    /\ cb = "idle"
    /\ buffer = 0
    /\ cut = 0
    /\ audioq = <<>>
    /\ accepted = <<>>
    /\ pc = "connecting"
    /\ ret = "none"
    /\ task_id = NoTid
    /\ hs_event = NoEvent
    /\ rd = "unspawned"
    /\ rd_event = NoEvent
    /\ arrived = <<>>
    /\ decoded = <<>>
    /\ eof = FALSE
    /\ wire = <<>>
    /\ evq = <<>>
    /\ emitted = <<>>
    /\ observed = <<>>
    /\ consumer = "receiving"
    /\ released = 0
    /\ calls = <<[op |-> "start", end |-> "ok"]>>
    /\ config = c
    /\ positions = chunk_positions(c.sample_rate)
    /\ signal \in Signals
    /\ delivered = 0
    /\ samples = <<>>
    /\ chunks = <<>>
    /\ call = NoCall
    /\ result = NoResult

\* A 48 kHz mono device, callbacks of 1000 samples, which end inside a chunk,
\* or of a whole second, the queue of main.rs.
InitPipeline == InitHearing([channels |-> 1, sample_rate |-> 48000])
NextPipeline == Deliver(CallbackSizes, audio_channel_capacity)
SpecPipeline == InitPipeline /\ [][NextPipeline]_vars

\* Devices by what they list and what they report as their default: mono at
\* 8000 Hz only, mono and stereo up to 11025 Hz, mono at 22050 and at 44100 Hz
\* only, mono from 8000 to 48000 Hz, and nothing listed with a stereo default.
Devices ==
    {[supported |-> <<[channels |-> c, min_sample_rate |-> r[1], max_sample_rate |-> r[2]]>>,
      default |-> <<>>] :
         c \in {1}, r \in {<<8000, 8000>>, <<8000, 11025>>, <<22050, 22050>>,
                            <<44100, 44100>>, <<8000, 48000>>}}
    \cup {[supported |-> <<[channels |-> 2, min_sample_rate |-> 8000,
                            max_sample_rate |-> 11025]>>, default |-> <<>>],
          [supported |-> <<>>, default |-> <<[channels |-> 2, sample_rate |-> 44100]>>]}

\* A capture running on the format find_best_config selects on one of these
\* devices, callbacks of 1000 samples.
InitFormats ==
    \E d \in Devices :
        LET r == find_best_config(d.supported, d.default)
        IN  /\ r.kind \in {"ok", "default"}
            /\ InitHearing([channels |-> r.channels, sample_rate |-> r.sample_rate])
NextFormats == DeliverUpTo({1000}, audio_channel_capacity, MaxHeard)
SpecFormats == InitFormats /\ [][NextFormats]_vars

\* --------------------------------------- AsrClient called again and again

\* Uuid::new_v4 never returns an id it returned before; every id generated is
\* stored in self.task_id, the ids are taken in increasing order.
UnusedIds == {t \in TaskIds : t > task_id}

\* The audio queue handed to a run: its senders gone, a chunk left in it or not.
ClientQueues == {<<>>, <<1>>}

\* start_recognition is called on a new client.
InitClient ==
    /\ state = "Idle"
    /\ app_audio_tx = FALSE
    /\ is_recording = FALSE
    /\ stream = FALSE
    /\ stopping = FALSE
    /\ cb = "idle"
    /\ buffer = 0
    /\ audioq \in ClientQueues
    /\ cut = Len(audioq)
    /\ accepted = audioq
    /\ pc = "connecting"
    /\ ret = "none"
    /\ task_id = NoTid
    /\ hs_event = NoEvent
    /\ rd = "unspawned"
    /\ rd_event = NoEvent
    /\ arrived = <<>>
    /\ decoded = <<>>
    /\ eof = FALSE
    /\ wire = <<>>
    /\ evq = <<>>
    /\ emitted = <<>>
    /\ observed = <<>>
    /\ consumer = "receiving"
    /\ released = 0
    /\ calls = <<>>
    /\ config = NoConfig
    /\ positions = <<>>
    /\ signal = "none"
    /\ delivered = 0
    /\ samples = <<>>
    /\ chunks = <<>>
    /\ call = NoCall
    /\ result = NoResult

\* start_recognition has returned and is called again on the same client,
\* with new queues; it opens a new transport.  self.task_id is the only state
\* the client carries from run to run.  A read task the earlier run left
\* running keeps its own transport half and event sender and is followed no
\* further.
CallAgain ==
    /\ pc = "done"
    /\ UnusedIds # {}
    /\ pc' = "connecting"
    /\ ret' = "none"
    /\ hs_event' = NoEvent
    /\ rd' = "unspawned"
    /\ rd_event' = NoEvent
    /\ arrived' = <<>>
    /\ decoded' = <<>>
    /\ eof' = FALSE
    /\ wire' = <<>>
    /\ evq' = <<>>
    /\ emitted' = <<>>
    /\ observed' = <<>>
    /\ consumer' = "receiving"
    /\ audioq' \in ClientQueues
    /\ cut' = Len(audioq')
    /\ accepted' = audioq'
    /\ UNCHANGED <<api_vars, data_vars, unit_vars>>
    /\ UNCHANGED <<state, app_audio_tx, is_recording, stream, stopping, cb,
                   buffer, task_id>>

NextClient ==
    \/ CallAgain
    \/ Connect
    \/ SendRunTaskOf(UnusedIds)
    \/ HandshakeRecv(CaptureFrames, MaxFrames)
    \/ HandshakeSend
    \/ ReadRecv(CaptureFrames, MaxFrames)
    \/ ReadSend
    \/ ForwardAudio
    \/ AudioClosed
    \/ SendFinishTask
    \/ Join
    \/ ConsumerRecv
    \/ ConsumerEnd
SpecClient == InitClient /\ [][NextClient]_vars

TypeOK ==
    /\ Len(audioq) <= AudioQueueCap
    /\ Len(evq) <= EventQueueCap
    /\ cut <= MaxChunks
    /\ Len(arrived) <= MaxTranscript

\* ------------------------------------------------------------- properties

Range(q) == {q[i] : i \in 1..Len(q)}
IsBinary(w) == w.k = "binary"
Binaries(w) == SelectSeq(w, IsBinary)
IsPrefix(a, b) == Len(a) <= Len(b) /\ SubSeq(b, 1, Len(a)) = a

\* A start confirmation for the task of this run has been taken from the transport.
MatchingStartArrived ==
    \E i \in 1..Len(arrived) :
        arrived[i].event = "task-started" /\ arrived[i].tid = task_id

\* C1: as long as no task-started response with the task id of this run has
\* arrived, the session stays in AwaitingStart (or has failed): no TaskStarted
\* is emitted, the read task is not spawned and no audio frame is written.
C1_ForeignStartIgnored ==
    ~MatchingStartArrived =>
        /\ pc \notin {"streaming", "finish", "join"}
        /\ rd = "unspawned"
        /\ hs_event # TaskStarted
        /\ TaskStarted \notin Range(emitted)
        /\ Binaries(wire) = <<>>

Last(q) == q[Len(q)]
IsEvent(f, names) == Decodes(f) /\ f.event \in names

\* C2: a result-generated, task-finished or task-failed event taken by the
\* read task whose task id is not the id of this run is ignored: the read
\* task builds no domain event from it and goes on reading.
C2_ForeignEventIgnored ==
    [][(/\ rd = "reading"
        /\ arrived' # arrived
        /\ IsEvent(Last(arrived'),
                   {"result-generated", "task-finished", "task-failed"})
        /\ Last(arrived').tid # task_id)
       => (rd' = "reading" /\ decoded' = decoded)]_vars

\* The last item the handshake loop took is a task-failed event for this run
\* that carries a message.
FailedInAwaitingStart ==
    /\ rd = "unspawned"
    /\ arrived # <<>>
    /\ IsEvent(Last(arrived), {"task-failed"})
    /\ Last(arrived).tid = task_id
    /\ Last(arrived).msg # NoMsg

\* C3: a task-failed event taken in AwaitingStart ends the run in failure with
\* the carried message: TaskFailed{error} with error = error_message is the one
\* event emitted, start_recognition returns an error, and nothing but the
\* run-task request is ever written to the transport.
C3_FailedInAwaitingStart ==
    FailedInAwaitingStart =>
        /\ pc \in {"hs-send", "done"}
        /\ pc = "hs-send" =>
              /\ hs_event = TaskFailed(Last(arrived).msg)
              /\ emitted = <<>>
        /\ pc = "done" =>
              /\ ret = "err"
              /\ emitted = <<TaskFailed(Last(arrived).msg)>>
        /\ wire = <<RunTask(task_id)>>

\* C3 witness: the run has failed in AwaitingStart with the service's message
\* while a chunk was waiting in the audio queue.
C3_Witness ==
    /\ FailedInAwaitingStart
    /\ pc = "done"
    /\ observed = <<TaskFailed("quota")>>
    /\ audioq # <<>>

\* The domain event the consumer is to see for an inbound event of the task.
EventFor(f) ==
    CASE f.event = "task-started" -> TaskStarted
      [] f.event = "task-finished" -> TaskFinished
      [] f.event = "result-generated" ->
            ResultGenerated(f.text, f.sentence_end, f.sid)
      [] OTHER -> NoEvent
EventsFor(q) == [i \in 1..Len(q) |-> EventFor(q[i])]

\* The traffic so far is the start confirmation, then recognition results,
\* then (possibly) task-finished, all for the task of this run.
Transcript(q) ==
    \A i \in 1..Len(q) :
        /\ Decodes(q[i]) /\ q[i].tid = task_id
        /\ (i = 1) <=> (q[i].event = "task-started")
        /\ q[i].event \in {"task-started", "result-generated", "task-finished"}
        /\ q[i].event = "task-finished" => i = Len(q)

C5_FinalNeverRevised ==
    \A i, j \in 1..Len(emitted) :
        (/\ i < j
         /\ emitted[i].type = "ResultGenerated" /\ emitted[i].is_final
         /\ emitted[j].type = "ResultGenerated"
         /\ emitted[j].sid = emitted[i].sid)
        => emitted[j].is_final

\* C6: every finish-task request carries the task id of the run-task request,
\* and start_recognition has returned only if the read task it spawned has
\* ended.
C6_FinishThenJoin ==
    /\ \A i \in 1..Len(wire) :
          wire[i].k = "finish-task" => wire[i].tid = wire[1].tid
    /\ (pc = "done" /\ rd # "unspawned") => rd = "ended"

\* The chunks written to the transport as binary frames, in order.
Forwarded == [i \in 1..Len(Binaries(wire)) |-> Binaries(wire)[i].chunk]

\* C7: chunks are never reordered.  The accepted chunks are a subsequence, in
\* production order, of the chunks cut; the binary frames written are the
\* accepted chunks in that order, from the first on; and while the audio loop
\* runs, an accepted chunk is either written or still queued, in that order.
C7_AudioFifo ==
    /\ \A i \in 1..Len(accepted) : accepted[i] \in 1..cut
    /\ \A i, j \in 1..Len(accepted) : i < j => accepted[i] < accepted[j]
    /\ IsPrefix(Forwarded, accepted)
    /\ pc \notin {"finish", "join", "done"} => accepted = Forwarded \o audioq

\* C7 witness: chunk 3 was dropped, chunks 1, 2 and 4 were written in order.
C7_Witness == Forwarded = <<1, 2, 4>>

\* C8: a chunk cut while the queue is full or closed is dropped: that turn of
\* the loop leaves the queue as it was and goes on with the buffer that
\* remains; and a callback inside its loop can always take its next turn.
C8_DropOnFull ==
    /\ [][(/\ cut' = cut + 1
           /\ (Len(audioq) >= AudioQueueCap \/ AudioRxClosed))
          => (/\ audioq' = audioq
              /\ accepted' = accepted
              /\ buffer' = buffer - SamplesPerChunk
              /\ cb' = "loop")]_vars
    /\ [](cb = "loop" => ENABLED ProcessChunk)

\* C8 witness: a chunk was dropped on a full queue while the session was
\* running, and a chunk cut after it was accepted.
C8_Witness ==
    /\ accepted = <<1, 2, 4>>
    /\ cut = 4
    /\ cb = "idle"
    /\ pc = "streaming"

\* The event a send to the event queue has not completed yet.
Pending ==
    (IF pc = "hs-send" THEN <<hs_event>> ELSE <<>>)
    \o (IF rd = "sending" THEN <<rd_event>> ELSE <<>>)

\* C9: no domain event is lost.  While the consumer receives, the events built
\* from the inbound traffic are exactly the events observed, then the events
\* queued, then the event being sent; the queue never exceeds its capacity; and
\* a send on a full queue does not complete.
C9_LosslessEvents ==
    /\ Len(evq) <= EventQueueCap
    /\ consumer = "receiving" =>
          /\ decoded = observed \o evq \o Pending
          /\ emitted = observed \o evq
    /\ (rd = "sending" /\ consumer = "receiving" /\ Len(evq) >= EventQueueCap)
          => ~ENABLED ReadSend

\* C9 witness: the read task is suspended in a send on a full event queue.
C9_Witness ==
    /\ rd = "sending"
    /\ consumer = "receiving"
    /\ Len(evq) = EventQueueCap
    /\ rd_event.type = "ResultGenerated"

\* The read task has ended on a transport error.
ReceiveError == rd = "ended" /\ Last(arrived).k = "err"

\* C10: a transport error on the receive path in Streaming ends the session:
\* after it no binary frame is written, and start_recognition returns an error
\* or a TaskFailed event has been emitted.
C10_ReceiveErrorTerminal ==
    [][ReceiveError =>
         /\ Binaries(wire') = Binaries(wire)
         /\ pc' = "done" =>
               (ret' = "err" \/ \E e \in Range(emitted') : e.type = "TaskFailed")]_vars

\* C11: when start_recognition has returned, no task still holds a half of
\* the connection: the read task was never spawned or has ended.
C11_TransportReleased == pc = "done" => rd \in {"unspawned", "ended"}

\* A text frame that does not decode as an Event has just been taken.
TookUndecodable == arrived' # arrived /\ Last(arrived').k = "garbage"

\* C12 as claimed: a text frame that fails to decode is skipped in every
\* phase; the session stays where it is and reads on.
C12_DecodeFailureSkipped ==
    [][TookUndecodable =>
         (pc' = pc /\ rd' = rd /\ ret' = ret /\ decoded' = decoded)]_vars

\* C12 amended: a text frame that fails to decode is skipped by the read task
\* (Streaming and Finishing), which reads on and builds no event from it; in
\* AwaitingStart it ends the run with an error.
C12_DecodeFailureByPhase ==
    [][TookUndecodable =>
         IF rd = "reading"
           THEN (rd' = "reading" /\ decoded' = decoded /\ pc' = pc /\ ret' = ret)
           ELSE (pc = "await-start" /\ pc' = "done" /\ ret' = "err"
                 /\ decoded' = decoded /\ wire' = wire)]_vars

\* C12 witness: after a frame that did not decode the read task took the
\* next frame and built its event.
C12_Witness ==
    /\ arrived = <<TextFrame("task-started", 1), GarbageFrame,
                   ResultFrame(1, 0, FALSE)>>
    /\ decoded = <<TaskStarted, ResultGenerated("a", FALSE, 0)>>

\* C13: the step in which the handshake loop meets the end of the transport,
\* a Close frame or the end of the inbound stream, returns an error.
C13_CloseInAwaitingStart ==
    [][(/\ pc = "await-start"
        /\ \/ (~eof /\ eof')
           \/ (arrived' # arrived /\ Last(arrived').k = "close"))
       => (pc' = "done" /\ ret' = "err")]_vars

\* C14: on a 48 kHz mono device whose queue rejected nothing, after callbacks
\* that delivered N samples in all, however split, floor(N / 4800) chunks have
\* been pushed, each of 3200 bytes; a silent signal gives chunks of zero bytes
\* only, and one second of silence gives ten of them.
ZeroBytes == [j \in 1..3200 |-> 0]
Mono48k == config = [channels |-> 1, sample_rate |-> 48000]
\* The 16-bit word of the quarter heard at position i of the ramp.
RampWord(i) ==
    LET q == ((5 * i) % 9) - 4
    IN  IF q >= 0 THEN (q * 32767) \div 4 ELSE 65536 - ((-q * 32767) \div 4)
C14_ChunksOfA48kStream ==
    (Mono48k /\ Len(accepted) = cut) =>
        /\ Len(accepted) = delivered \div 4800
        /\ accepted = [k \in 1..Len(accepted) |-> k]
        /\ Len(chunks) = cut
        /\ \A k \in 1..Len(chunks) : Len(chunks[k]) = 3200
        /\ signal = "silence" => \A k \in 1..Len(chunks) : chunks[k] = ZeroBytes
        /\ (signal = "silence" /\ delivered = 48000) => Len(audioq) = 10
        /\ signal = "loud" =>
              \A k \in 1..Len(chunks) :
                  \A j \in 1..1600 : chunks[k][2 * j - 1] = 255 /\ chunks[k][2 * j] = 127
        /\ signal = "ramp" =>
              \A k \in 1..Len(chunks) :
                  \A j \in 1..1600 :
                      chunks[k][2 * j - 1] + 256 * chunks[k][2 * j]
                          = RampWord(3 * (1600 * (k - 1) + j - 1) + 1)
C14_Witness ==
    /\ Mono48k /\ signal = "silence" /\ delivered = 48000
    /\ audioq = <<1, 2, 3, 4, 5, 6, 7, 8, 9, 10>>
    /\ chunks[10] = ZeroBytes

\* C15: AudioCapture::stop is idempotent.  Every stop ends without error and
\* leaves is_recording false and no stream held; it releases the stream it
\* finds and nothing else, so that every stream ever stored is released once
\* when it is no longer held and never twice; and a stop that follows a stop,
\* or is the first call on a new capture, changes nothing.
StreamsStored == Cardinality({i \in 1..Len(calls) : calls[i] = [op |-> "start", end |-> "ok"]})
StreamsHeld == IF stream THEN 1 ELSE 0
IsStop == calls' = Append(calls, [op |-> "stop", end |-> "ok"])
C15_StopIdempotent ==
    /\ [](released + StreamsHeld = StreamsStored)
    /\ [][IsStop =>
            /\ ~is_recording' /\ ~stream'
            /\ released' = released + StreamsHeld
            /\ (calls = <<>> \/ calls[Len(calls)].op = "stop")
                  => UNCHANGED <<is_recording, stream, released>>]_vars
C15_Witness ==
    /\ Len(calls) = 3
    /\ calls[1] = [op |-> "start", end |-> "ok"]
    /\ calls[2].op = "stop" /\ calls[3].op = "stop"
    /\ released = 1 /\ ~stream /\ ~is_recording

\* C16: when the source rate equals the target rate, resample returns its
\* input: the same length and the same sample at every position.
IsResample == call.op = "resample"
C16_ResampleIdentity ==
    (IsResample /\ call.source_rate = call.target_rate) =>
        /\ Len(result) = Len(call.input)
        /\ \A i \in 1..Len(call.input) : result[i] = call.input[i]
C16_Witness ==
    /\ IsResample /\ call.source_rate = 44100 /\ call.target_rate = 44100
    /\ Len(call.input) = 480 /\ call.input[1] # call.input[2]
    /\ result = call.input

\* C17: for every input length n and every pair of rates, resample returns
\* floor(n * target_rate / source_rate) samples.
C17_OutputLength ==
    IsResample => Len(result) = (Len(call.input) * call.target_rate) \div call.source_rate

\* C18: the encoding clamps, then scales.  A chunk of n samples is encoded in
\* 2 n bytes; the two bytes of a sample x are the little-endian 16-bit two's
\* complement of the single-precision product clamp(x, -1, 1) * 32767 cut
\* toward zero, a value of the sign of x between -32767 and 32767, which is
\* the exact product cut toward zero whenever that product is a
\* single-precision number; 1.5 gives 32767 (bytes FF 7F), -2.0 gives -32767.
IsEncode == call.op = "encode"
EncodedValue(j) ==
    LET u == result[2 * j - 1] + 256 * result[2 * j]
    IN  IF u >= 32768 THEN u - 65536 ELSE u
C18_ClampThenScale ==
    IsEncode =>
        /\ Len(result) = 2 * Len(call.input)
        /\ \A j \in 1..Len(result) : result[j] \in 0..255
        /\ \A j \in 1..Len(call.input) :
              LET x == call.input[j]
                  v == EncodedValue(j)
                  size == IF v < 0 THEN -v ELSE v
                  abs == Val(FALSE, x.m, x.e)
                  full == Cmp(abs, OfInt(1)) >= 0
                  exact == Prod(abs, OfInt(32767))
              IN  /\ v \in -32767..32767
                  /\ IF x.neg THEN v <= 0 ELSE v >= 0
                  /\ full => size = 32767
                  /\ ~full => size = Trunc(F32(exact))
                  /\ (~full /\ BigBits(Canon(exact).m) <= 24) => size = Trunc(exact)
                  /\ x = Canon(Dyadic(3, 1)) => (result[2 * j - 1] = 255 /\ result[2 * j] = 127)
                  /\ x = OfInt(-2) => v = -32767
C18_Witness ==
    /\ IsEncode
    /\ call.input = <<Canon(Dyadic(3, 1)), OfInt(-2), Canon(Dyadic(-1, 2))>>
    /\ result = <<255, 127, 1, 128, 1, 224>>

\* C19: the stereo downmix gives one mono sample for each frame of two
\* interleaved samples, ceil(n / 2) for n samples: the mean of the pair, a
\* missing second sample counting as 0.  [1.0, -1.0] gives 0.0 and a trailing
\* [1.0] gives 0.5.
IsStereoDownmix == call.op = "downmix" /\ call.channels = 2
C19_StereoDownmix ==
    IsStereoDownmix =>
        LET n == Len(call.input) IN
        /\ Len(result) = (n + 1) \div 2
        /\ \A k \in 1..Len(result) :
              LET left == call.input[2 * k - 1]
                  right == IF 2 * k <= n THEN call.input[2 * k] ELSE Zero
              IN  /\ Canon(Prod(result[k], OfInt(2))) = Canon(Sum(left, right))
                  /\ (left = OfInt(1) /\ right = OfInt(-1)) => result[k] = Zero
                  /\ (left = OfInt(1) /\ 2 * k > n) => result[k] = Canon(Dyadic(1, 1))
C19_Witness ==
    /\ IsStereoDownmix
    /\ call.input = <<OfInt(1), OfInt(-1), OfInt(1)>>
    /\ result = <<Zero, Canon(Dyadic(1, 1))>>

\* C20: find_best_config selects by priority, whatever the order of the list:
\* a mono format whose range includes 16 kHz, at 16 kHz; otherwise a mono
\* format; otherwise a stereo format; otherwise the default of the device.
\* A mono or stereo fallback is selected at 16 kHz if that is in its range,
\* else at its maximum rate capped at 48 kHz.
IsNegotiation == call.op = "find_best_config"
Offered(channels) == {i \in 1..Len(call.supported) : call.supported[i].channels = channels}
Includes16k(i) ==
    call.supported[i].min_sample_rate <= 16000 /\ call.supported[i].max_sample_rate >= 16000
SelectedAmong(S) ==
    /\ result.kind = "ok"
    /\ \E i \in S :
        /\ result.range = call.supported[i]
        /\ result.channels = call.supported[i].channels
        /\ result.sample_rate =
              IF Includes16k(i) THEN 16000
              ELSE IF call.supported[i].max_sample_rate > 48000 THEN 48000
              ELSE call.supported[i].max_sample_rate
C20_NegotiationPriority ==
    IsNegotiation =>
        IF \E i \in Offered(1) : Includes16k(i)
          THEN SelectedAmong({i \in Offered(1) : Includes16k(i)})
        ELSE IF Offered(1) # {} THEN SelectedAmong(Offered(1))
        ELSE IF Offered(2) # {} THEN SelectedAmong(Offered(2))
        ELSE IF call.default = <<>> THEN result.kind = "err"
        ELSE /\ result.kind = "default"
             /\ result.channels = call.default[1].channels
             /\ result.sample_rate = call.default[1].sample_rate

\* A finish-task request has been written to the transport.
FinishSent == \E i \in 1..Len(wire) : wire[i].k = "finish-task"

\* C21: a finish-task request is written only after every sender of the
\* audio-chunk queue is gone and every chunk the queue accepted has been
\* written to the transport as a binary frame.
C21_FinishAfterDrain ==
    FinishSent => (AudioSendersGone /\ audioq = <<>> /\ Forwarded = accepted)

\* The read task has taken a task-failed event for the task of this run, has
\* sent TaskFailed to the event queue and has ended.
FailedInStreaming ==
    /\ rd = "ended"
    /\ arrived # <<>>
    /\ IsEvent(Last(arrived), {"task-failed"}) /\ Last(arrived).tid = task_id

\* C22: Failed is terminal.  Once the read task has taken a task-failed event
\* for the task of this run and reported it, nothing more is written to the
\* transport: no binary frame and no finish-task request.
C22_FailedIsTerminal == [][FailedInStreaming => wire' = wire]_vars

\* C23: every chunk cut has the size of 100 ms at 16 kHz, 1600 samples in 3200
\* bytes, whatever format the negotiation selected.
C23_CanonicalChunkSize == \A k \in 1..Len(chunks) : Len(chunks[k]) = 3200

\* C24: resample reads inside its input only.  With p = i / ratio for output
\* sample i (from 0), the sample is input[floor(p)] and input[floor(p) + 1]
\* blended by the fractional part of p when both exist, input[floor(p)] alone
\* when it is the last sample of the input, and 0.0 when floor(p) is past the
\* end; floor(p) is never past the end.  Where p is exact (ratio 1/2 and 2),
\* floor(p) = floor(i * source_rate / target_rate) and the fractional part is
\* the remainder over target_rate.  [0.0, 1.0] at ratio 0.5 gives [0.0].
ExactPairs == {<<2, 1>>, <<8000, 16000>>}
C24_ResampleInBounds ==
    (IsResample /\ call.source_rate # call.target_rate) =>
        LET n == Len(call.input)
            ratio == ratio_of(call.source_rate, call.target_rate)
        IN  /\ \A j \in 1..Len(result) :
                  LET p == position(j - 1, ratio)
                      w == F32(Sum(OfInt(1), Neg(p.frac)))
                  IN  /\ p.src_idx < n
                      /\ p.src_idx + 1 < n =>
                            result[j] = Canon(F32(Sum(
                                F32(Prod(call.input[p.src_idx + 1], w)),
                                F32(Prod(call.input[p.src_idx + 2], p.frac)))))
                      /\ p.src_idx + 1 = n => result[j] = call.input[n]
                      /\ <<call.source_rate, call.target_rate>> \in ExactPairs =>
                            /\ p.src_idx = ((j - 1) * call.source_rate) \div call.target_rate
                            /\ Canon(Prod(p.frac, OfInt(call.target_rate)))
                                  = Canon(OfInt(((j - 1) * call.source_rate) % call.target_rate))
            /\ (call.input = <<Zero, OfInt(1)>> /\ call.source_rate = 2 /\ call.target_rate = 1)
                  => result = <<Zero>>
C24_Witness ==
    /\ IsResample /\ call.source_rate = 8000 /\ call.target_rate = 16000
    /\ call.input = <<Zero, OfInt(1), OfInt(-1)>>
    /\ result = <<Zero, Canon(Dyadic(1, 1)), OfInt(1), Zero, OfInt(-1), OfInt(-1)>>

\* C25: when connect_async fails, start_recognition returns an error having
\* generated no task id, written no frame, spawned no read task and built no
\* event; nothing of this changes afterwards, so the error result is the one
\* report of the failure and the event queue closes empty.
ConnectFailed == pc = "done" /\ task_id = NoTid
C25_ConnectFailure ==
    [][/\ (pc = "connecting" /\ pc' = "done") =>
            /\ ret' = "err" /\ task_id' = NoTid /\ wire' = <<>>
            /\ rd' = "unspawned" /\ decoded' = <<>> /\ emitted' = <<>>
       /\ ConnectFailed =>
            /\ ConnectFailed'
            /\ UNCHANGED <<ret, wire, rd, decoded, emitted>>
            /\ observed' = <<>>]_vars

C25_Witness ==
    /\ ConnectFailed /\ ret = "err" /\ wire = <<>> /\ audioq # <<>>
    /\ consumer = "ended" /\ observed = <<>>

\* C26: a finish-task frame is written only by a client that holds a task id,
\* and it carries the id of the run-task frame written on the same transport,
\* which is the id generated in this run, also when the client holds an id
\* from an earlier run.
C26_FinishCarriesRunId ==
    \A i \in 1..Len(wire) :
        wire[i].k = "finish-task" =>
            /\ task_id # NoTid
            /\ wire[i] = FinishTask(task_id)
            /\ wire[1] = RunTask(task_id)
            /\ \A j \in 2..Len(wire) : wire[j].k # "run-task"

\* The second run of a client has written its finish-task.
C26_Witness ==
    /\ FinishSent /\ task_id = 2
    /\ wire = <<RunTask(2), Binary(1), FinishTask(2)>>

\* The last item the handshake loop took is a task-failed event that carries
\* a message and no task id.
FailedWithoutIdInAwaitingStart ==
    /\ rd = "unspawned"
    /\ arrived # <<>>
    /\ Last(arrived).k = "text" /\ Last(arrived).event = "task-failed"
    /\ Last(arrived).tid = NoTid
    /\ Last(arrived).msg # NoMsg

\* C27: a task-failed event without a task id taken in AwaitingStart ends the
\* run as one with the id of the run does: TaskFailed{error} with the carried
\* message is the one event emitted and start_recognition returns an error.
C27_FailedWithoutId ==
    FailedWithoutIdInAwaitingStart =>
        /\ pc \in {"hs-send", "done"}
        /\ pc = "hs-send" =>
              /\ hs_event = TaskFailed(Last(arrived).msg)
              /\ emitted = <<>>
        /\ pc = "done" =>
              /\ ret = "err"
              /\ emitted = <<TaskFailed(Last(arrived).msg)>>
        /\ wire = <<RunTask(task_id)>>

\* An event that decodes and has no name, a name the client does not know, or
\* the name result-generated and no transcription.
Ignorable(f) ==
    /\ Decodes(f)
    /\ \/ f.event \notin {"task-started", "result-generated", "task-finished",
                          "task-failed"}
       \/ f.event = "result-generated" /\ f.sid < 0

\* C28: taking such an event changes nothing: no domain event is built, sent
\* or emitted, start_recognition and the read task stay where they are, nothing
\* is written, and the loop that took it reads on.
C28_IgnoredEvents ==
    [][(arrived' # arrived /\ Ignorable(Last(arrived'))) =>
          /\ decoded' = decoded /\ emitted' = emitted /\ evq' = evq
          /\ hs_event' = hs_event /\ rd_event' = NoEvent
          /\ pc' = pc /\ rd' = rd /\ ret' = ret /\ wire' = wire
          /\ \/ rd' = "reading"
             \/ rd' = "unspawned" /\ pc' = "await-start"]_vars

\* The read task has taken an event with a name it does not know and then
\* the end of the task, which the consumer has seen.
C28_Witness ==
    /\ Len(arrived) = 3
    /\ arrived[1].event = "task-started"
    /\ arrived[2] = TextFrame("bogus", 1) /\ Ignorable(arrived[2])
    /\ arrived[3].event = "task-finished"
    /\ observed = <<TaskStarted, TaskFinished>>

\* AudioCapture::stop has returned.
StopReturned == \E i \in 1..Len(calls) : calls[i].op = "stop"

\* C29: once stop has cleared the flag, a callback that is entered returns at
\* once: while no callback is inside process_audio_samples, and after stop has
\* returned, the buffer keeps its length, no chunk is cut and the queue
\* accepts nothing.
C29_CallbackAfterStop ==
    [][((stopping /\ ~is_recording /\ cb = "idle") \/ StopReturned) =>
          /\ buffer' = buffer /\ cut' = cut /\ accepted' = accepted
          /\ cb' = "idle"
          /\ Len(audioq') <= Len(audioq)]_vars

\* The flag is clear and the stream still held: the callback may be entered,
\* with samples in the buffer and chunks in the queue.
C29_Witness ==
    /\ stopping /\ ~is_recording /\ stream /\ cb = "idle"
    /\ buffer > 0 /\ cut < MaxChunks /\ audioq # <<>>

\* C30: a binary frame is on the wire only after the start confirmation of
\* this run has been taken from the transport; in Connecting and
\* AwaitingStart the chunks accepted by the queue are all still queued.
C30_NoAudioBeforeStart ==
    /\ Binaries(wire) # <<>> => MatchingStartArrived
    /\ pc \in {"connecting", "run-task", "await-start", "hs-send"} =>
           Binaries(wire) = <<>> /\ audioq = accepted

\* C31: the normalized value of every raw sample of every integer type lies
\* in [-1, 1].
IsNormalize == call.op = "normalize"
C31_NormalizedInRange ==
    IsNormalize =>
        /\ Cmp(result[1], OfInt(1)) <= 0
        /\ Cmp(result[1], OfInt(-1)) >= 0

\* i32::MAX, which `as f32` rounds up to 2^31, is normalized to 1.0.
C31_Witness ==
    /\ IsNormalize /\ call.type = "i32" /\ call.raw = I32_MAX
    /\ result = <<OfInt(1)>>

\* A terminal event, if any, is the last of q.
TerminalLast(q) == \A i \in 1..Len(q) : IsTerminal(q[i]) => i = Len(q)

\* C32: in one run at most one TaskFinished or TaskFailed is emitted and no
\* event is emitted after it; the same holds of the events built from the
\* inbound traffic, whether their send completes or not.
C32_OneTerminalEvent == TerminalLast(emitted) /\ TerminalLast(decoded)

\* The read task ended on a task-failed event after a result, the inbound
\* stream still open.
C32_Witness ==
    /\ rd = "ended" /\ ~eof
    /\ emitted = <<TaskStarted, ResultGenerated("a", FALSE, 0), TaskFailed("quota")>>

\* C33: the samples received while recording are all in the chunks cut or in
\* the buffer, and a callback that has returned leaves less than one chunk in
\* the buffer, whatever the sizes of the callbacks.
C33_BufferConservation ==
    /\ cut * SamplesPerChunk + buffer = delivered
    /\ cb = "idle" => buffer < SamplesPerChunk

\* Callbacks of different sizes have returned, chunks cut and a sample left.
C33_Witness ==
    /\ cb = "idle" /\ cut = 2 /\ buffer = 1
    /\ delivered = 2 * SamplesPerChunk + 1
    /\ Len(accepted) = 2

\* C34: what a run has written is at any time a beginning of: the run-task
\* frame, binary frames, the finish-task frame.  Frames are only ever added
\* at the end, so nothing follows a finish-task frame.
WireShape ==
    \A i \in 1..Len(wire) :
        /\ wire[i].k \in {"run-task", "binary", "finish-task"}
        /\ (wire[i].k = "run-task") <=> (i = 1)
        /\ wire[i].k = "finish-task" => i = Len(wire)
C34_WireSequence == []WireShape /\ [][IsPrefix(wire, wire')]_vars

\* A run has written run-task, two chunks and finish-task, and has returned.
C34_Witness ==
    /\ pc = "done"
    /\ wire = <<RunTask(1), Binary(1), Binary(2), FinishTask(1)>>

\* C35: when the device lists a mono or a stereo format, find_best_config
\* returns one of them at a rate inside the range of that format.
C35_SelectedRateInRange ==
    (IsNegotiation /\ Offered(1) \cup Offered(2) # {}) =>
        /\ result.kind = "ok"
        /\ result.range.min_sample_rate <= result.sample_rate
        /\ result.sample_rate <= result.range.max_sample_rate

\* C36: after any calls of start and stop, is_recording() is true only while
\* a stream is held, and a start that fails leaves it false.
C36_RecordingOnlyWithStream ==
    /\ is_recording => stream
    /\ (calls # <<>> /\ calls[Len(calls)].op = "start" /\ calls[Len(calls)].end # "ok"
          /\ ~stream) => ~is_recording

\* C37: App.audio_tx is present only while App.state is Recording, and once
\* stop_recording has returned every sender of the audio queue is gone.
C37_SendersFollowState ==
    /\ app_audio_tx => state = "Recording"
    /\ StopReturned => AudioSendersGone


====
